---- MODULE Spec2Model ----
(***************************************************************************)
(* The recognition session controller of the debate platform               *)
(* (src/src/hooks/useSpeechRecognition.ts) and the status view of          *)
(* src/src/components/SpeechRecognitionControls.tsx, as a state machine.   *)
(*                                                                         *)
(* The hook is a React function component body.  Its handlers are closures *)
(* created when the setup effect runs: they read the values of             *)
(* participantSide, isAnchor, autoRestartCount and isListening of THAT     *)
(* render, not the current ones.  State setters act on the current state   *)
(* at once (a functional update prev => prev + 1 reads the current value), *)
(* while the re-render and the effects it triggers run later, as the       *)
(* separate step Render.  Deferred callbacks (setTimeout of 1000 ms and    *)
(* more) and user operations run only when no render is outstanding: React *)
(* commits a scheduled render within the same frame.                       *)
(*                                                                         *)
(* The specifications share the variables and the actions.  Spec is the    *)
(* session controller (every operation but the result handler),            *)
(* SpecCaptions the path from a result event to a caption insert,          *)
(* SpecWrites that path with inserts that fail, SpecCap the runs that      *)
(* drive the attempt counter to its cap.  SpecReader is the caption reader *)
(* (src/src/hooks/useCaptions.ts) with the table it reads, SpecMerge the   *)
(* content aggregator of src/src/lib/gemini.ts.  SpecPartition,            *)
(* SpecVotes and SpecFormat are the later steps of generateDebateSummary   *)
(* in the same file (partitions, percentages and fallback, prompt lines),  *)
(* SpecSummary the invocations of generateSummary                          *)
(* (src/src/hooks/useDebateSummary.ts), SpecPage the summary page that     *)
(* shows their result (src/src/pages/SummaryPage.tsx).                     *)
(*                                                                         *)
(* Text is a sequence of characters; "_" stands for a white-space          *)
(* character.  A confidence is a percentage 0..100, NoConf when the host   *)
(* omits it.                                                               *)
(***************************************************************************)
EXTENDS Integers, Sequences, FiniteSets, Bags, TLC

\* ------------------------------------------------------------------ bounds
\* result segments delivered to the handlers in one run
MaxResults == 2
\* superseded recognizer instances that still owe their end event
MaxOld == 1
\* pending timers whose handle is no longer held by autoRestartTimeoutRef
MaxLoose == 1
\* explicit startListening / stopListening calls in one run
MaxCalls == 1
\* changes of the hook's props in one run
MaxPropChanges == 1
\* superseded instances, and explicit calls, in the runs that drive the
\* counter to the cap
MaxOldCap == 11
MaxCallsCap == 22
\* rows inserted into the captions table, and the timestamps they get
MaxRows == 1
MaxTs == 2
\* changes of the reader's room in one run
MaxRoomChanges == 1
\* caption inserts that fail in one run
MaxFails == 1
\* messages and captions handed to the content aggregator
MaxMessages == 2
MaxCaptions == 2
\* votes cast for one side
MaxVotes == 15
\* generateSummary invocations in one run
MaxRuns == 2

\* ------------------------------------------------------- program constants
\* autoRestartCount < 10
MaxRestarts == 10
\* 1000 + (autoRestartCount * 500)
BaseDelay == 1000
DelayStep == 500
\* the secondary retry after a failed restart
RetryDelay == 5000
\* the delay of the automatic start on mount
AutoStartDelay == 1000
\* confidence || 0.9, as a percentage
DefaultConfidence == 90
\* the autoStart prop: defaults to true, and the one call site passes true
autoStart == TRUE

NoConf == -1
\* item.confidence < 0.8, as a percentage
LowConfidence == 80
\* sideContent.slice(0, 10)
MaxArguments == 10
\* sideAContent.slice(0, 5)
FallbackArguments == 5
SideNone == "none"
Sides == {"side_a", "side_b"}
ErrorKinds == {"not-allowed", "no-speech", "network", "aborted"}

VARIABLES
    supported,          \* window.SpeechRecognition exists (host capability)
    participantSide,    \* prop, SideNone when undefined
    isAnchor,           \* prop
    phase,              \* "init" (rendered, effects not yet run), "mounted", "unmounted"
    isListening,        \* useState
    transcript,         \* useState
    error,              \* useState
    isSupported,        \* useState
    autoRestartCount,   \* useState
    rListening,         \* isListening as of the last committed render
    rCount,             \* autoRestartCount as of the last committed render
    rSupported,         \* isSupported as of the last committed render
    cur,                \* recognitionRef.current, an instance record (st = "null": none)
    old,                \* bag of superseded instances that still owe their end event
    finalTranscriptRef, \* useRef
    tref,               \* the pending timer autoRestartTimeoutRef.current refers to
    loose,              \* bag of the pending timers no reference is held to
    isAutoStartedRef,   \* useRef
    requests,           \* the insert requests sent to supabase.from('captions')
    log,                \* observation: the result events the handlers were given
    budget,             \* the run's remaining allowance of bounded operations
    \* ---- the caption reader (src/src/hooks/useCaptions.ts)
    roomId,             \* prop of useCaptions, RoomNone when empty
    readerPhase,        \* "init" (rendered, effect not yet run), "mounted", "unmounted"
    captions,           \* useState: the exposed list
    loading,            \* useState
    subs,               \* the channel subscriptions the effect runs created, in order
    fetches,            \* bag of the fetchCaptions calls in flight
    table,              \* the rows of the captions table, in insertion order
    inbox,              \* change notifications on their way to the subscriptions
    readerLog,          \* observation: what the current effect run fetched and was notified of
    \* ---- the content aggregator (src/src/lib/gemini.ts)
    messages,           \* argument of generateDebateSummary
    captionsArg,        \* argument of generateDebateSummary
    allContent,         \* the merged sequence
    aggPhase,           \* "called", "merged", "prepared", "returned", "thrown"
    votes,              \* argument of generateDebateSummary
    apiKey,             \* GEMINI_API_KEY is configured
    prepared,           \* the partitions, the percentages and the prompt's entries
    result,             \* what generateDebateSummary returned or threw
    \* ---- the summary hook (src/src/hooks/useDebateSummary.ts)
    runs,               \* the generateSummary invocations, in order of their call
    summaries,          \* the inserts into discussion_summaries, in order
    sLoading,           \* useState loading
    sError,             \* useState error
    \* ---- the summary page (src/src/pages/SummaryPage.tsx)
    page                \* its step, newSummary and existingSummary

hookVars == <<supported, participantSide, isAnchor, phase, isListening, transcript,
          error, isSupported, autoRestartCount, rListening, rCount, rSupported,
          cur, old, finalTranscriptRef, tref, loose, isAutoStartedRef,
          requests, log, budget>>

readerVars == <<roomId, readerPhase, captions, loading, subs, fetches, table,
                inbox, readerLog>>

synthVars == <<votes, apiKey, prepared, result>>

summaryVars == <<runs, summaries, sLoading, sError, page>>

aggVars == <<messages, captionsArg, allContent, aggPhase, synthVars, summaryVars>>

vars == <<hookVars, readerVars, aggVars>>

\* what the recognition hook never touches
outsideHook == <<readerVars, aggVars>>

propVars == <<supported, participantSide, isAnchor>>
textVars == <<transcript, finalTranscriptRef, requests>>

\* ------------------------------------------------------------------- text
RECURSIVE TrimLeft(_)
TrimLeft(s) ==
    IF s = <<>> THEN <<>>
    ELSE IF Head(s) = "_" THEN TrimLeft(Tail(s)) ELSE s

RECURSIVE TrimRight(_)
TrimRight(s) ==
    IF s = <<>> THEN <<>>
    ELSE IF s[Len(s)] = "_" THEN TrimRight(SubSeq(s, 1, Len(s) - 1)) ELSE s

\* String.prototype.trim
Trim(s) == TrimRight(TrimLeft(s))

\* the segments the host recognizer reports: final ones and interim ones
FinalTranscripts == {<<"_">>, <<"f", "_">>}
InterimTranscripts == {<<"i">>}
FinalConfidences == {NoConf, 0, 60}
InterimConfidences == {30}
Segments ==
    [isFinal : {TRUE}, transcript : FinalTranscripts, confidence : FinalConfidences]
    \cup [isFinal : {FALSE}, transcript : InterimTranscripts,
          confidence : InterimConfidences]

\* event.results from event.resultIndex on, of at most n segments
ResultEvents(n) == UNION {[1..k -> Segments] : k \in 1..n}

\* a loop that does not look at isFinal
RECURSIVE AnyTranscriptOf(_)
AnyTranscriptOf(ev) ==
    IF ev = <<>> THEN <<>> ELSE Head(ev).transcript \o AnyTranscriptOf(Tail(ev))

\* the loop of onresult: the final segments' transcripts, concatenated
RECURSIVE FinalTranscriptOf(_)
FinalTranscriptOf(ev) ==
    IF ev = <<>> THEN <<>>
    ELSE (IF Head(ev).isFinal THEN Head(ev).transcript ELSE <<>>)
         \o FinalTranscriptOf(Tail(ev))

\* the loop of onresult: the interim segments' transcripts, concatenated
RECURSIVE InterimTranscriptOf(_)
InterimTranscriptOf(ev) ==
    IF ev = <<>> THEN <<>>
    ELSE (IF Head(ev).isFinal THEN <<>> ELSE Head(ev).transcript)
         \o InterimTranscriptOf(Tail(ev))

\* event.results[event.resultIndex]?.[0]?.confidence || 0.9
ConfidenceOf(ev) ==
    IF ev[1].confidence = NoConf \/ ev[1].confidence = 0
    THEN DefaultConfidence
    ELSE ev[1].confidence

\* a test that does not trim
ShouldSaveUntrimmed(ev, side, anchor) ==
    FinalTranscriptOf(ev) # <<>> /\ side # SideNone /\ anchor

\* if (finalTranscript.trim() && participantSide && isAnchor)
ShouldSave(ev, side, anchor) ==
    Trim(FinalTranscriptOf(ev)) # <<>> /\ side # SideNone /\ anchor

\* a row whose content is not trimmed
CaptionInsertUntrimmed(ev, side) ==
    [participant_side |-> side,
     content          |-> FinalTranscriptOf(ev),
     confidence       |-> ConfidenceOf(ev),
     is_final         |-> TRUE]

\* a row whose side is read from the props of the moment
CaptionInsertCurrentSide(ev, side) ==
    [participant_side |-> participantSide,
     content          |-> Trim(FinalTranscriptOf(ev)),
     confidence       |-> ConfidenceOf(ev),
     is_final         |-> TRUE]

\* the row handed to supabase.from('captions').insert
CaptionInsert(ev, side) ==
    [participant_side |-> side,
     content          |-> Trim(FinalTranscriptOf(ev)),
     confidence       |-> ConfidenceOf(ev),
     is_final         |-> TRUE]

\* ------------------------------------------------------ recognizer instances
\* An instance carries the values its handlers closed over (cCount, cListening,
\* cSide, cAnchor), the host's session state st, and an observation of the
\* session: how it was started, the error it reported, who called stop(), and
\* the delay of the restart timer whose callback started it (via, 0 if none).
NullRec ==
    [st |-> "null", cCount |-> 0, cListening |-> FALSE, cSide |-> SideNone,
     cAnchor |-> FALSE, how |-> "none", err |-> "none", halt |-> "none",
     via |-> 0]

\* new SpeechRecognition() with the handlers of this effect run
NewRec(side, anchor, count, listening) ==
    [st |-> "idle", cCount |-> count, cListening |-> listening, cSide |-> side,
     cAnchor |-> anchor, how |-> "none", err |-> "none", halt |-> "none",
     via |-> 0]

Started(r) == r.st \in {"starting", "active"}
Live(r) == r.st \in {"starting", "active", "ending"}

\* a stop() that leaves the session running
StopRecIgnored(r, who) == r

\* recognition.stop(): ignored unless the session is started
StopRec(r, who) ==
    IF Started(r) THEN [r EXCEPT !.st = "ending", !.halt = who] ELSE r

\* recognition.start() throws InvalidStateError unless the session is idle
CanStart(r) == r.st = "idle"

StartRec(r, who) ==
    [r EXCEPT !.st = "starting", !.how = who, !.err = "none", !.halt = "none",
              !.via = 0]

\* the instance after its end event
EndedRec(r) ==
    [r EXCEPT !.st = "idle", !.how = "none", !.err = "none", !.halt = "none",
              !.via = 0]

\* the live instances: the current one and the superseded ones
Instances ==
    (IF Live(cur) THEN {<<"cur", cur>>} ELSE {})
    \cup {<<"old", r>> : r \in BagToSet(old)}

One(x) == SetToBag({x})

\* the instance p = <<where, r>> becomes r2
Becomes(p, r2) ==
    IF p[1] = "cur"
    THEN cur' = r2 /\ old' = old
    ELSE /\ cur' = cur
         /\ old' = IF Live(r2) THEN (old (-) One(p[2])) (+) One(r2)
                   ELSE old (-) One(p[2])

\* ------------------------------------------------------------------ timers
NoTimer ==
    [kind |-> "none", cListening |-> FALSE, cSup |-> FALSE, cSide |-> SideNone,
     delay |-> 0]

\* setTimeout(..., 1000 + (autoRestartCount * 500)) of onend
RestartTimer(r) ==
    [NoTimer EXCEPT !.kind = "restart", !.cListening = r.cListening,
                    !.delay = BaseDelay + (r.cCount * DelayStep)]

\* setTimeout(..., 5000) of the catch branch
RetryTimer(t) == [t EXCEPT !.kind = "retry", !.delay = RetryDelay]

\* setTimeout(() => startListening(), 1000) of the auto-start effect
AutoStartTimer(sup, side) ==
    [NoTimer EXCEPT !.kind = "autostart", !.cSup = sup, !.cSide = side,
                    !.delay = AutoStartDelay]

Pending(t) == t.kind # "none"

\* the pending timers: the one the ref holds and the ones nobody holds
Timers ==
    (IF Pending(tref) THEN {<<"ref", tref>>} ELSE {})
    \cup {<<"loose", t>> : t \in BagToSet(loose)}

\* the pending timers without p = <<where, t>>, plus the bag more
TimersBecome(p, more) ==
    IF p[1] = "ref"
    THEN tref' = NoTimer /\ loose' = loose (+) more
    ELSE tref' = tref /\ loose' = (loose (-) One(p[2])) (+) more

\* ------------------------------------------------------------- React state
\* a state setter: ignored once the component is unmounted
Set(new, now) == IF phase = "unmounted" THEN now ELSE new

\* a render is outstanding: a state the closures and effects depend on changed
Dirty ==
    \/ isListening # rListening
    \/ autoRestartCount # rCount
    \/ isSupported # rSupported

\* deferred callbacks and user operations run between renders
Settled == phase = "unmounted" \/ (phase = "mounted" /\ ~Dirty)

\* observation of the result events handled so far for an anchor with a side:
\* the number of final segments that hold text, and the side of each event
\* that held such a segment
HasText(seg) == seg.isFinal /\ \E i \in 1..Len(seg.transcript) : seg.transcript[i] # "_"

Observe(ev, side, anchor) ==
    IF side # SideNone /\ anchor /\ \E i \in 1..Len(ev) : HasText(ev[i])
    THEN [log EXCEPT !.segs = @ + Cardinality({i \in 1..Len(ev) : HasText(ev[i])}),
                     !.saves = Append(@, side)]
    ELSE log

\* observation of the last insert that failed: its position among the requests
ObserveInsert(l, out, k) ==
    IF out # "ok" THEN [l EXCEPT !.failed = k] ELSE l

\* ----------------------------------------------------------------- Init
\* The component has rendered once with its props; no effect has run yet.
Mounting(b) ==
    /\ phase = "init"
    /\ isListening = FALSE
    /\ transcript = <<>>
    /\ error = ""
    /\ isSupported = FALSE
    /\ autoRestartCount = 0
    /\ rListening = FALSE
    /\ rCount = 0
    /\ rSupported = FALSE
    /\ cur = NullRec
    /\ old = EmptyBag
    /\ finalTranscriptRef = <<>>
    /\ tref = NoTimer
    /\ loose = EmptyBag
    /\ isAutoStartedRef = FALSE
    /\ requests = <<>>
    /\ log = [segs |-> 0, saves |-> <<>>, failed |-> 0]
    /\ budget = b

\* useCaptions before its first effect, given no room
RoomNone == ""

\* observation of the current effect run of useCaptions: the reply to its
\* fetch (got, replied), the notifications its subscription delivered (seen);
\* and the number of room changes so far
NoReaderLog == [got |-> <<>>, replied |-> FALSE, seen |-> <<>>, changes |-> 0]

ReaderIdle ==
    /\ roomId = RoomNone
    /\ readerPhase = "init"
    /\ captions = <<>>
    /\ loading = TRUE
    /\ subs = <<>>
    /\ fetches = EmptyBag
    /\ table = <<>>
    /\ inbox = <<>>
    /\ readerLog = NoReaderLog

\* generateDebateSummary not called
\* no votes
NoVotes == [side_a |-> 0, side_b |-> 0]

\* the partitions, percentages and prompt entries before they are computed
NotPrepared ==
    [sideAContent |-> <<>>, sideBContent |-> <<>>, totalVotes |-> 0,
     sideAPercentage |-> <<>>, sideBPercentage |-> <<>>,
     promptA |-> <<>>, promptB |-> <<>>]

NoContent == [kind |-> "none"]

\* useDebateSummary with no invocation so far
\* the summary page when it is not rendered: useState('') and useState(null)
PageIdle == [step |-> "none", newSummary |-> NoContent, existingSummary |-> NoContent]

SummaryIdle ==
    /\ runs = <<>>
    /\ summaries = <<>>
    /\ sLoading = FALSE
    /\ sError = ""
    /\ page = PageIdle

\* the intermediate values of generateDebateSummary before it runs
SynthIdle ==
    /\ allContent = <<>>
    /\ prepared = NotPrepared
    /\ result = NoContent

AggIdle ==
    /\ messages = <<>>
    /\ captionsArg = <<>>
    /\ votes = NoVotes
    /\ apiKey = TRUE
    /\ aggPhase = "idle"
    /\ SynthIdle
    /\ SummaryIdle

AnyProps ==
    /\ supported \in BOOLEAN
    /\ participantSide \in Sides \cup {SideNone}
    /\ isAnchor \in BOOLEAN

Init ==
    /\ AnyProps
    /\ Mounting([results |-> 0, calls |-> MaxCalls, props |-> MaxPropChanges,
                 old |-> MaxOld, fails |-> 0])
    /\ ReaderIdle
    /\ AggIdle

\* ------------------------------------------------------- render and effects
\* a setup that reports nothing
SetupErrorSilent(sup, now) == now

\* if (!SpeechRecognition) setError('Speech recognition not supported ...')
SetupError(sup, now) == IF sup THEN now ELSE "unsupported"

\* One render with the props (side, anchor), followed by its effects: the
\* setup effect (cleanup of the previous run, then a new recognizer) when one
\* of its dependencies changed, and the auto-start effect.
Commit(side, anchor) ==
    LET propsChanged == side # participantSide \/ anchor # isAnchor
        setupRuns == phase = "init" \/ propsChanged \/ autoRestartCount # rCount
        autoRuns == phase = "init" \/ propsChanged \/ isSupported # rSupported
        hadCleanup == phase # "init" /\ supported
        stopped == IF hadCleanup THEN StopRec(cur, "cleanup") ELSE cur
        auto == /\ autoRuns
                /\ anchor /\ autoStart /\ side # SideNone /\ isSupported
                /\ ~isAutoStartedRef
    IN  /\ setupRuns /\ supported /\ Live(stopped) => BagCardinality(old) < budget.old
        /\ auto => BagCardinality(loose) < MaxLoose
        /\ participantSide' = side
        /\ isAnchor' = anchor
        /\ supported' = supported
        /\ phase' = "mounted"
        /\ rListening' = isListening
        /\ rCount' = autoRestartCount
        /\ rSupported' = isSupported
        /\ IF setupRuns
           THEN /\ isSupported' = supported
                /\ tref' = IF hadCleanup THEN NoTimer ELSE tref
                /\ IF supported
                   THEN /\ cur' = NewRec(side, anchor, autoRestartCount, isListening)
                        /\ old' = IF Live(stopped) THEN old (+) One(stopped) ELSE old
                        /\ error' = SetupError(supported, error)
                   ELSE /\ cur' = cur
                        /\ old' = old
                        /\ error' = SetupError(supported, error)
           ELSE UNCHANGED <<isSupported, tref, cur, old, error>>
        /\ isAutoStartedRef' = (isAutoStartedRef \/ auto)
        /\ loose' = IF auto THEN loose (+) One(AutoStartTimer(isSupported, side))
                    ELSE loose
        /\ UNCHANGED <<isListening, autoRestartCount, textVars, log, outsideHook>>

\* React re-renders the component after a state change and runs the effects.
Render ==
    /\ phase = "init" \/ (phase = "mounted" /\ Dirty)
    /\ Commit(participantSide, isAnchor)
    /\ UNCHANGED budget

\* The parent renders the hook with another side or role.
PropChange ==
    /\ phase = "mounted"
    /\ budget.props > 0
    /\ \E side \in Sides \cup {SideNone}, anchor \in BOOLEAN :
          /\ side # participantSide \/ anchor # isAnchor
          /\ Commit(side, anchor)
    /\ budget' = [budget EXCEPT !.props = @ - 1]

\* The component unmounts: the cleanup of the setup effect runs.
Unmount ==
    /\ phase = "mounted"
    /\ phase' = "unmounted"
    /\ IF supported
       THEN tref' = NoTimer /\ cur' = StopRec(cur, "cleanup")
       ELSE UNCHANGED <<tref, cur>>
    /\ UNCHANGED <<propVars, isListening, error, isSupported, autoRestartCount,
                   rListening, rCount, rSupported, old, loose, isAutoStartedRef,
                   textVars, log, budget, outsideHook>>

\* ---------------------------------------------------------- startListening
\* The body of startListening as closed over (sup, side); who names the caller.
StartListeningBody(sup, side, who) ==
    IF ~sup \/ cur.st = "null" \/ side = SideNone
    THEN /\ error' = IF side = SideNone THEN Set("no-side", error) ELSE error
         /\ UNCHANGED <<finalTranscriptRef, transcript, autoRestartCount, cur>>
    ELSE /\ finalTranscriptRef' = <<>>
         /\ transcript' = Set(<<>>, transcript)
         /\ autoRestartCount' = Set(0, autoRestartCount)
         /\ IF CanStart(cur)
            THEN cur' = StartRec(cur, who) /\ error' = Set("", error)
            ELSE cur' = cur /\ error' = Set("start-failed", error)

\* The user of the hook calls startListening.
StartListening ==
    /\ phase = "mounted" /\ ~Dirty
    /\ budget.calls > 0
    /\ StartListeningBody(rSupported, participantSide, "explicit")
    /\ budget' = [budget EXCEPT !.calls = @ - 1]
    /\ UNCHANGED <<propVars, phase, isListening, isSupported, rListening, rCount,
                   rSupported, old, tref, loose, isAutoStartedRef, requests, log,
                   outsideHook>>

\* The user of the hook calls stopListening.
StopListening ==
    /\ phase = "mounted" /\ ~Dirty
    /\ budget.calls > 0
    /\ tref' = NoTimer
    /\ cur' = IF cur.st # "null" /\ rListening THEN StopRec(cur, "stop") ELSE cur
    /\ budget' = [budget EXCEPT !.calls = @ - 1]
    /\ UNCHANGED <<propVars, phase, isListening, error, isSupported,
                   autoRestartCount, rListening, rCount, rSupported, old, loose,
                   isAutoStartedRef, textVars, log, outsideHook>>

\* ------------------------------------------------------ recognizer events
\* recognition.onstart of the instance p
OnStartOf(p) ==
    /\ p[2].st = "starting"
    /\ Becomes(p, [p[2] EXCEPT !.st = "active"])
    /\ isListening' = Set(TRUE, isListening)
    /\ error' = Set("", error)
    /\ autoRestartCount' = Set(0, autoRestartCount)
    /\ UNCHANGED <<propVars, phase, isSupported, rListening, rCount, rSupported,
                   tref, loose, isAutoStartedRef, textVars, log, budget,
                   outsideHook>>

OnStart == \E p \in Instances : OnStartOf(p)

\* the message setError is given for an error kind
ErrorText(kind, now) ==
    IF kind = "not-allowed" THEN "denied"
    ELSE IF kind = "no-speech" THEN now
    ELSE IF kind = "network" THEN "network"
    ELSE "other"

\* recognition.onerror of the instance p; the host ends the session after an error
OnErrorOf(p, kind) ==
    /\ Started(p[2])
    /\ Becomes(p, [p[2] EXCEPT !.st = "ending", !.err = kind])
    /\ isListening' = Set(FALSE, isListening)
    /\ error' = Set(ErrorText(kind, error), error)
    /\ UNCHANGED <<propVars, phase, isSupported, autoRestartCount, rListening,
                   rCount, rSupported, tref, loose, isAutoStartedRef, textVars,
                   log, budget, outsideHook>>

OnError == \E p \in Instances, kind \in ErrorKinds : OnErrorOf(p, kind)

\* if (isAnchor && autoStart && participantSide && autoRestartCount < 10)
ShouldRestart(r) ==
    r.cAnchor /\ autoStart /\ r.cSide # SideNone /\ r.cCount < MaxRestarts

\* recognition.onend of the instance p
OnEndOf(p) ==
    /\ p[2].st \in {"active", "ending"}
    /\ Becomes(p, EndedRec(p[2]))
    /\ isListening' = Set(FALSE, isListening)
    /\ IF ShouldRestart(p[2])
       THEN /\ Pending(tref) => BagCardinality(loose) < MaxLoose
            /\ autoRestartCount' = Set(autoRestartCount + 1, autoRestartCount)
            /\ tref' = RestartTimer(p[2])
            /\ loose' = IF Pending(tref) THEN loose (+) One(tref) ELSE loose
       ELSE UNCHANGED <<autoRestartCount, tref, loose>>
    /\ UNCHANGED <<propVars, phase, error, isSupported, rListening, rCount,
                   rSupported, isAutoStartedRef, textVars, log, budget,
                   outsideHook>>

OnEnd == \E p \in Instances : OnEndOf(p)

\* how supabase.from('captions').insert ends: resolved without an error,
\* resolved with an error, or rejected
InsertOutcomes == {"ok", "error", "throw"}

\* a handler that surfaces a failed insert
ErrorAfterInsertSurfaced(out, now) == IF out = "ok" THEN now ELSE "save-failed"

\* the error state after the insert ended with out: both the insertError branch
\* and the catch branch only write to the console
ErrorAfterInsert(out, now) == now

\* recognition.onresult of the instance p, given the event ev; out is how the
\* insert ends if the handler issues one
OnResultOf(p, ev, out) ==
    /\ p[2].st \in {"active", "ending"}
    /\ transcript' = Set(finalTranscriptRef \o FinalTranscriptOf(ev)
                             \o InterimTranscriptOf(ev), transcript)
    /\ IF ShouldSave(ev, p[2].cSide, p[2].cAnchor)
       THEN /\ finalTranscriptRef' = finalTranscriptRef \o FinalTranscriptOf(ev)
            /\ requests' = Append(requests, CaptionInsert(ev, p[2].cSide))
            /\ error' = ErrorAfterInsert(out, error)
            /\ log' = ObserveInsert(Observe(ev, p[2].cSide, p[2].cAnchor), out,
                                    Len(requests) + 1)
       ELSE /\ UNCHANGED <<finalTranscriptRef, requests, error>>
            /\ log' = Observe(ev, p[2].cSide, p[2].cAnchor)
    /\ budget' = [budget EXCEPT !.results = @ - Len(ev),
                                !.fails = IF out = "ok" THEN @ ELSE @ - 1]
    /\ UNCHANGED <<propVars, phase, isListening, isSupported,
                   autoRestartCount, rListening, rCount, rSupported, cur, old,
                   tref, loose, isAutoStartedRef, outsideHook>>

OnResult ==
    \E p \in Instances, ev \in ResultEvents(budget.results) :
        \E out \in IF ShouldSave(ev, p[2].cSide, p[2].cAnchor) /\ budget.fails > 0
                    THEN InsertOutcomes ELSE {"ok"} :
            OnResultOf(p, ev, out)

\* ---------------------------------------------------------- timer callbacks
\* The callback of the restart timer p, or of the 5-second retry timer p.
FireRestartOf(p) ==
    /\ p[2].kind \in {"restart", "retry"}
    /\ Settled
    /\ IF cur.st # "null" /\ ~p[2].cListening
       THEN IF CanStart(cur)
            THEN /\ cur' = [StartRec(cur, "auto") EXCEPT
                               !.via = IF p[2].kind = "restart" THEN p[2].delay
                                       ELSE 0]
                 /\ TimersBecome(p, EmptyBag)
            ELSE /\ cur' = cur
                 /\ IF p[2].kind = "restart"
                    THEN TimersBecome(p, One(RetryTimer(p[2])))
                    ELSE TimersBecome(p, EmptyBag)
       ELSE cur' = cur /\ TimersBecome(p, EmptyBag)
    /\ UNCHANGED <<propVars, phase, isListening, error, isSupported,
                   autoRestartCount, rListening, rCount, rSupported, old,
                   isAutoStartedRef, textVars, log, budget, outsideHook>>

FireRestart == \E p \in Timers : FireRestartOf(p)

\* The callback of the auto-start timer: startListening of the render that armed it.
FireAutoStart ==
    \E p \in Timers :
        /\ p[2].kind = "autostart"
        /\ Settled
        /\ TimersBecome(p, EmptyBag)
        /\ StartListeningBody(p[2].cSup, p[2].cSide, "mount")
        /\ UNCHANGED <<propVars, phase, isListening, isSupported, rListening,
                       rCount, rSupported, old, isAutoStartedRef, requests, log,
                       budget, outsideHook>>

\* ------------------------------------------------------- the caption reader
\* useCaptions(roomId): one bulk fetch of the room's final captions, and a
\* subscription to the INSERT notifications of the room.  The fetch is
\* asynchronous: the server evaluates the query at some moment (FetchQuery)
\* and the reply reaches the hook later (FetchReply); notifications travel
\* on their own (Notify).
Rooms == {"r1", "r2"}

\* the rows clients insert: the recognition hook, the one writer of the table,
\* sends is_final: true, and the table assigns the timestamp
Rows(k) == [id : {k}, room : Rooms, ts : 1..MaxTs, is_final : {TRUE}]

Range(q) == {q[i] : i \in 1..Len(q)}

\* the sequences that list every row of the set rs once
Listings(rs) ==
    {q \in [1..Cardinality(rs) -> rs] : \A i, j \in 1..Cardinality(rs) : q[i] = q[j] => i = j}

\* .eq('room_id', room).eq('is_final', true).order('timestamp', { ascending: true }):
\* the replies the server may give; rows of one timestamp come in any order
Selected(room) ==
    LET rs == {r \in Range(table) : r.room = room /\ r.is_final}
    IN  {q \in Listings(rs) : \A i \in 1..(Len(q) - 1) : q[i].ts <= q[i + 1].ts}

\* a state setter of useCaptions: ignored once the component is unmounted
SetR(new, now) == IF readerPhase = "unmounted" THEN now ELSE new

\* an unsubscribe() that leaves the channel joined
UnsubscribeLeak(sub) == sub

\* subscription.unsubscribe()
Unsubscribe(sub) == [sub EXCEPT !.st = "closed", !.released = @ + 1]

\* the cleanup of the effect run for the room prev: none was registered when
\* the effect returned early
ReaderCleanup(prev) ==
    IF prev = RoomNone THEN subs
    ELSE [subs EXCEPT ![Len(subs)] = Unsubscribe(@)]

\* the effect of useCaptions, run for the room r after the cleanup of the run
\* for prev
ReaderEffect(prev, r) ==
    IF r = RoomNone
    THEN /\ subs' = ReaderCleanup(prev)
         /\ fetches' = fetches
    ELSE /\ subs' = Append(ReaderCleanup(prev),
                           [room |-> r, st |-> "joined", released |-> 0])
         /\ fetches' = fetches (+) One([room |-> r, st |-> "sent", data |-> <<>>,
                                        of |-> Len(subs) + 1])

\* The component has rendered once; its effect runs.
ReaderMount ==
    /\ readerPhase = "init"
    /\ readerPhase' = "mounted"
    /\ ReaderEffect(RoomNone, roomId)
    /\ UNCHANGED <<roomId, captions, loading, table, inbox, readerLog, hookVars,
                   aggVars>>

\* The parent renders the hook with another room.
RoomChange ==
    /\ readerPhase = "mounted"
    /\ readerLog.changes < MaxRoomChanges
    /\ \E r \in Rooms \cup {RoomNone} :
          /\ r # roomId
          /\ roomId' = r
          /\ ReaderEffect(roomId, r)
    /\ readerLog' = [NoReaderLog EXCEPT !.changes = readerLog.changes + 1]
    /\ UNCHANGED <<readerPhase, captions, loading, table, inbox, hookVars, aggVars>>

\* The component unmounts: the cleanup of the effect runs.
ReaderUnmount ==
    /\ readerPhase = "mounted"
    /\ readerPhase' = "unmounted"
    /\ subs' = ReaderCleanup(roomId)
    /\ UNCHANGED <<roomId, captions, loading, fetches, table, inbox, readerLog,
                   hookVars, aggVars>>

\* the notifications the insert of row sends: one to each joined subscription
\* whose filter room_id=eq.<room> matches
RECURSIVE NotificationsOf(_, _)
NotificationsOf(row, i) ==
    IF i > Len(subs) THEN <<>>
    ELSE (IF subs[i].st = "joined" /\ subs[i].room = row.room
          THEN <<<<i, row>>>> ELSE <<>>)
         \o NotificationsOf(row, i + 1)

\* A client inserts a row into the captions table.
InsertRow ==
    /\ Len(table) < MaxRows
    /\ \E row \in Rows(Len(table) + 1) :
          /\ table' = Append(table, row)
          /\ inbox' = inbox \o NotificationsOf(row, 1)
    /\ UNCHANGED <<roomId, readerPhase, captions, loading, subs, fetches,
                   readerLog, hookVars, aggVars>>

\* A notification reaches its subscription: the callback appends payload.new.
Notify ==
    /\ inbox # <<>>
    /\ inbox' = Tail(inbox)
    /\ IF subs[inbox[1][1]].st = "joined"
       THEN /\ captions' = SetR(Append(captions, inbox[1][2]), captions)
            /\ readerLog' = [readerLog EXCEPT !.seen = Append(@, inbox[1][2])]
       ELSE UNCHANGED <<captions, readerLog>>
    /\ UNCHANGED <<roomId, readerPhase, loading, subs, fetches, table, hookVars,
                   aggVars>>

\* The server evaluates the query of a fetchCaptions call, or fails.
FetchQuery ==
    \E f \in BagToSet(fetches) :
        /\ f.st = "sent"
        /\ \/ \E data \in Selected(f.room) :
                 fetches' = (fetches (-) One(f))
                            (+) One([f EXCEPT !.st = "answered", !.data = data])
           \/ fetches' = (fetches (-) One(f)) (+) One([f EXCEPT !.st = "failed"])
        /\ UNCHANGED <<roomId, readerPhase, captions, loading, subs, table, inbox,
                       readerLog, hookVars, aggVars>>

\* fetchCaptions resumes after its await: setCaptions(data || []) on success,
\* a console message on failure, setLoading(false) in both cases.
FetchReply ==
    \E f \in BagToSet(fetches) :
        /\ f.st \in {"answered", "failed"}
        /\ fetches' = fetches (-) One(f)
        /\ loading' = SetR(FALSE, loading)
        /\ IF f.st = "answered"
           THEN /\ captions' = SetR(f.data, captions)
                /\ readerLog' =
                      IF f.of = Len(subs) /\ subs[f.of].st = "joined"
                      THEN [readerLog EXCEPT !.got = f.data, !.replied = TRUE]
                      ELSE readerLog
           ELSE UNCHANGED <<captions, readerLog>>
        /\ UNCHANGED <<roomId, readerPhase, subs, table, inbox, hookVars, aggVars>>

\* --------------------------------------------------- the content aggregator
\* generateDebateSummary: messages and captions, mapped to one shape,
\* concatenated and sorted by new Date(timestamp).getTime().
Timestamps == {"t1", "t2", "t3"}
Contents == {"a", "b"}

\* new Date(timestamp).getTime()
GetTime(ts) ==
    CASE ts = "t1" -> 1000 [] ts = "t2" -> 2000 [] ts = "t3" -> 3000
      [] ts = "t4" -> 4000 [] ts = "t5" -> 5000

\* a caption's confidence as a percentage, as the recognition hook stores it
StoredConfidence == DefaultConfidence

\* sequences of at most n elements of the set rows
SeqsUpTo(rows, n) == UNION {[1..k -> rows] : k \in 0..n}

MessageInputs(n) ==
    SeqsUpTo([content : Contents, side : {"side_a"}, timestamp : Timestamps], n)

CaptionInputs(n) ==
    SeqsUpTo([content : Contents, participant_side : {"side_a"},
              timestamp : Timestamps, confidence : {StoredConfidence}], n)

\* inputs whose entries are of side A, of side B or of no side
SidedMessageInputs(n) ==
    SeqsUpTo([content : {"a"}, side : Sides \cup {SideNone},
              timestamp : {"t1", "t2"}], n)

SidedCaptionInputs(n) ==
    SeqsUpTo([content : {"a"}, participant_side : Sides \cup {SideNone},
              timestamp : {"t1", "t2"}, confidence : {StoredConfidence}], n)

\* captions of every kind of confidence: omitted, zero, below, at and above
\* the threshold
CaptionConfidences == {NoConf, 0, 50, LowConfidence, StoredConfidence}

ConfidenceCaptionInputs(n) ==
    SeqsUpTo([content : {"a"}, participant_side : {"side_a"}, timestamp : {"t1"},
              confidence : CaptionConfidences], n)

\* the end-to-end scenario: three messages, two captions, votes 3 to 1
ScenarioMessages ==
    <<[content |-> "a", side |-> "side_a", timestamp |-> "t1"],
      [content |-> "b", side |-> "side_b", timestamp |-> "t2"],
      [content |-> "a", side |-> "side_a", timestamp |-> "t3"]>>

ScenarioCaptions ==
    <<[content |-> "a", participant_side |-> "side_a", timestamp |-> "t4",
       confidence |-> 95],
      [content |-> "b", participant_side |-> "side_b", timestamp |-> "t5",
       confidence |-> 60]>>

ScenarioVotes == [side_a |-> 3, side_b |-> 1]

VoteInputs(n) == [side_a : 0..n, side_b : 0..n]

\* messages.map(m => ({ ..., type: 'message' }))
MapMessages(ms) ==
    [i \in 1..Len(ms) |->
        [content |-> ms[i].content, side |-> ms[i].side,
         timestamp |-> ms[i].timestamp, type |-> "message", confidence |-> NoConf]]

\* captions.map(c => ({ ..., type: 'caption' }))
MapCaptions(cs) ==
    [i \in 1..Len(cs) |->
        [content |-> cs[i].content, side |-> cs[i].participant_side,
         timestamp |-> cs[i].timestamp, type |-> "caption",
         confidence |-> cs[i].confidence]]

\* an insertion that places x in front of the elements of its time
RECURSIVE InsertSortedBefore(_, _)
InsertSortedBefore(x, q) ==
    IF q = <<>> THEN <<x>>
    ELSE IF GetTime(Head(q).timestamp) >= GetTime(x.timestamp) THEN <<x>> \o q
    ELSE <<Head(q)>> \o InsertSortedBefore(x, Tail(q))

\* a comparator that orders by descending time
CompareDescending(a, b) == GetTime(b.timestamp) - GetTime(a.timestamp)

\* (a, b) => new Date(a.timestamp).getTime() - new Date(b.timestamp).getTime()
Compare(a, b) == GetTime(a.timestamp) - GetTime(b.timestamp)

\* x placed into the sorted sequence q behind every element that does not
\* compare greater than it
RECURSIVE InsertSorted(_, _)
InsertSorted(x, q) ==
    IF q = <<>> THEN <<x>>
    ELSE IF Compare(Head(q), x) > 0 THEN <<x>> \o q
    ELSE <<Head(q)>> \o InsertSorted(x, Tail(q))

\* Array.prototype.sort with the comparator: a stable sort
RECURSIVE SortContent(_)
SortContent(q) ==
    IF q = <<>> THEN <<>>
    ELSE InsertSorted(q[Len(q)], SortContent(SubSeq(q, 1, Len(q) - 1)))

\* [...messages.map(...), ...captions.map(...)].sort(...)
Merged(ms, cs) == SortContent(MapMessages(ms) \o MapCaptions(cs))

\* a filter that keeps every entry
SideContentUnfiltered(all, side) == all

\* allContent.filter(c => c.side === side)
SideContent(all, side) == SelectSeq(all, LAMBDA c : c.side = side)

TotalVotes(vs) == vs.side_a + vs.side_b

\* a formatting that cuts the digits after the first decimal
PercentageTruncated(v, total) ==
    IF total > 0
    THEN <<((1000 * v) \div total) \div 10, ((1000 * v) \div total) % 10>>
    ELSE <<0>>

\* totalVotes > 0 ? ((v / totalVotes) * 100).toFixed(1) : '0'
\* The text is the sequence of its numbers: <<75, 0>> is "75.0", <<0>> is "0".
\* toFixed(1) gives the nearest tenth, the larger one of two equally near.
Percentage(v, total) ==
    IF total > 0
    THEN <<((2000 * v + total) \div (2 * total)) \div 10,
           ((2000 * v + total) \div (2 * total)) % 10>>
    ELSE <<0>>

\* item.type === 'caption' && item.confidence && item.confidence < 0.8
ConfidenceNote(item) ==
    IF /\ item.type = "caption"
       /\ item.confidence # NoConf /\ item.confidence # 0
       /\ item.confidence < LowConfidence
    THEN "(low confidence)" ELSE ""

\* formatContent: one line per entry, the time, the type indicator, the
\* content and the confidence note
FormatContent(items) ==
    [i \in 1..Len(items) |->
        [time |-> GetTime(items[i].timestamp),
         typeIndicator |-> IF items[i].type = "caption" THEN "[SPEECH]" ELSE "[CHAT]",
         content |-> items[i].content,
         confidenceNote |-> ConfidenceNote(items[i])]]

\* the values generateDebateSummary computes before it calls the service
Prepared(all, vs) ==
    [sideAContent |-> SideContent(all, "side_a"),
     sideBContent |-> SideContent(all, "side_b"),
     totalVotes |-> TotalVotes(vs),
     sideAPercentage |-> Percentage(vs.side_a, TotalVotes(vs)),
     sideBPercentage |-> Percentage(vs.side_b, TotalVotes(vs)),
     promptA |-> FormatContent(SideContent(all, "side_a")),
     promptB |-> FormatContent(SideContent(all, "side_b"))]

\* how the call of the generative service ends: a text, a rejected fetch, a
\* response that is not ok, a response without text
ApiOutcomes == {"ok", "network", "http", "empty"}

\* the first n elements of q
FirstN(q, n) == SubSeq(q, 1, IF Len(q) < n THEN Len(q) ELSE n)

ContentsOf(items) == [i \in 1..Len(items) |-> items[i].content]

\* a fallback that counts the merged entries as messages
FallbackSummaryMerged(ms, cs, vs, prep, reason) ==
    [kind |-> "fallback",
     messages |-> Len(ms) + Len(cs), captions |-> Len(cs),
     totalVotes |-> prep.totalVotes,
     votesA |-> vs.side_a, sideAPercentage |-> prep.sideAPercentage,
     votesB |-> vs.side_b, sideBPercentage |-> prep.sideBPercentage,
     contributionsA |-> Len(prep.sideAContent),
     contributionsB |-> Len(prep.sideBContent),
     argumentsA |-> ContentsOf(FirstN(prep.sideAContent, FallbackArguments)),
     argumentsB |-> ContentsOf(FirstN(prep.sideBContent, FallbackArguments)),
     reason |-> reason]

\* fallbackSummary: the template's values, and the error message at its end
FallbackSummary(ms, cs, vs, prep, reason) ==
    [kind |-> "fallback",
     messages |-> Len(ms), captions |-> Len(cs),
     totalVotes |-> prep.totalVotes,
     votesA |-> vs.side_a, sideAPercentage |-> prep.sideAPercentage,
     votesB |-> vs.side_b, sideBPercentage |-> prep.sideBPercentage,
     contributionsA |-> Len(prep.sideAContent),
     contributionsB |-> Len(prep.sideBContent),
     argumentsA |-> ContentsOf(FirstN(prep.sideAContent, FallbackArguments)),
     argumentsB |-> ContentsOf(FirstN(prep.sideBContent, FallbackArguments)),
     reason |-> reason]

\* the try block and its catch: the service's text, or the fallback
Response(ms, cs, vs, prep, outcome) ==
    IF outcome = "ok" THEN [kind |-> "remote", text |-> "generated"]
    ELSE FallbackSummary(ms, cs, vs, prep, outcome)

\* generateDebateSummary as a whole: it throws without a key
Synthesis(ms, cs, vs, key, outcome) ==
    IF ~key THEN [kind |-> "throw", reason |-> "no-key"]
    ELSE Response(ms, cs, vs, Prepared(Merged(ms, cs), vs), outcome)

\* generateDebateSummary checks the key and builds allContent from its arguments.
Merge ==
    /\ aggPhase = "called"
    /\ IF apiKey
       THEN /\ allContent' = Merged(messages, captionsArg)
            /\ aggPhase' = "merged"
            /\ result' = result
       ELSE /\ allContent' = allContent
            /\ aggPhase' = "thrown"
            /\ result' = Synthesis(messages, captionsArg, votes, apiKey, "ok")
    /\ UNCHANGED <<messages, captionsArg, votes, apiKey, prepared, summaryVars,
                   hookVars, readerVars>>

\* generateDebateSummary partitions the merge, computes the percentages and
\* formats the prompt.
Prepare ==
    /\ aggPhase = "merged"
    /\ prepared' = Prepared(allContent, votes)
    /\ aggPhase' = "prepared"
    /\ UNCHANGED <<messages, captionsArg, allContent, votes, apiKey, result,
                   summaryVars, hookVars, readerVars>>

\* generateDebateSummary calls the service and returns its text or the fallback.
Respond ==
    /\ aggPhase = "prepared"
    /\ \E outcome \in ApiOutcomes :
          result' = Response(messages, captionsArg, votes, prepared, outcome)
    /\ aggPhase' = "returned"
    /\ UNCHANGED <<messages, captionsArg, allContent, votes, apiKey, prepared,
                   summaryVars, hookVars, readerVars>>

\* ---------------------------------------------------------- the summary hook
\* useDebateSummary.generateSummary.  The rows it fetches are the arguments of
\* the synthesis: messages, captionsArg (the final captions) and votes (the
\* vote rows, counted per side).  One record of runs per invocation:
\*   st       "fetching", "generating", "saving", "done"
\*   fetched  the five queries have succeeded
\*   summary  what generateDebateSummary returned, NoContent before
\*   save     how the insert ended: "none", "ok", "error", "throw"
\*   returned what the invocation returned: NotReturned, Null or the content
\*   row      the index in summaries of its insert, 0 before
NotReturned == [kind |-> "pending"]

Null == [kind |-> "null"]

NewRun ==
    [st |-> "fetching", fetched |-> FALSE, summary |-> NoContent, save |-> "none",
     returned |-> NotReturned, row |-> 0]

\* the stored rows of one room while a summary is generated
StoredMessages(n) ==
    SeqsUpTo({[content |-> "a", side |-> "side_a", timestamp |-> "t2"]}, n)

StoredCaptions(n) ==
    SeqsUpTo({[content |-> "b", participant_side |-> "side_a", timestamp |-> "t1",
               confidence |-> StoredConfidence]}, n)

\* the side's contributions in chronological order
ExtractSideArgumentsChronological(ms, cs, side) ==
    FirstN(ContentsOf(SideContent(Merged(ms, cs), side)), MaxArguments)

\* extractSideArguments: the side's messages, then its captions, the first ten
ExtractSideArguments(ms, cs, side) ==
    FirstN(ContentsOf(SelectSeq(ms, LAMBDA m : m.side = side))
             \o ContentsOf(SelectSeq(cs, LAMBDA c : c.participant_side = side)),
           MaxArguments)

\* a record that swaps the two counts
SummaryRecordSwapped(i, content, ms, cs, vs) ==
    [run |-> i, summary_type |-> "final", content |-> content,
     vote_results |-> vs,
     side_a_arguments |-> ExtractSideArguments(ms, cs, "side_a"),
     side_b_arguments |-> ExtractSideArguments(ms, cs, "side_b"),
     total_messages |-> Len(cs), total_captions |-> Len(ms),
     status |-> "pending"]

\* the row inserted into discussion_summaries (key_points and debate_duration
\* are derived from the same rows and are left out)
SummaryRecord(i, content, ms, cs, vs) ==
    [run |-> i, summary_type |-> "final", content |-> content,
     vote_results |-> vs,
     side_a_arguments |-> ExtractSideArguments(ms, cs, "side_a"),
     side_b_arguments |-> ExtractSideArguments(ms, cs, "side_b"),
     total_messages |-> Len(ms), total_captions |-> Len(cs),
     status |-> "pending"]

\* the content of a finished invocation is the remote text or the fallback
IsContent(c) == c.kind \in {"remote", "fallback"}

\* the catch and the finally of generateSummary
Failed(i, why) ==
    /\ runs' = [runs EXCEPT ![i].st = "done", ![i].returned = Null]
    /\ sError' = why
    /\ sLoading' = FALSE

\* generateSummary is called: setLoading(true), setError('')
InvokeBody ==
    /\ Len(runs) < MaxRuns
    /\ runs' = Append(runs, NewRun)
    /\ sLoading' = TRUE
    /\ sError' = ""
    /\ UNCHANGED <<messages, captionsArg, allContent, aggPhase, synthVars,
                   summaries, hookVars, readerVars>>

Invoke == InvokeBody /\ UNCHANGED page

\* the queries for the room, messages, votes, captions and participants
FetchDataOf(i, ok) ==
    /\ runs[i].st = "fetching"
    /\ IF ok
       THEN /\ runs' = [runs EXCEPT ![i].st = "generating", ![i].fetched = TRUE]
            /\ UNCHANGED <<sLoading, sError>>
       ELSE Failed(i, "fetch-failed")
    /\ UNCHANGED <<messages, captionsArg, allContent, aggPhase, synthVars,
                   summaries, page, hookVars, readerVars>>

FetchData == \E i \in 1..Len(runs) : \E ok \in BOOLEAN : FetchDataOf(i, ok)

\* await generateDebateSummary(...), then the insert is issued
GenerateOf(i, outcome) ==
    /\ runs[i].st = "generating"
    /\ LET r == Synthesis(messages, captionsArg, votes, apiKey, outcome)
       IN  IF r.kind = "throw"
           THEN /\ Failed(i, r.reason)
                /\ UNCHANGED summaries
           ELSE /\ summaries' =
                     Append(summaries,
                            SummaryRecord(i, r, messages, captionsArg, votes))
                /\ runs' = [runs EXCEPT ![i].st = "saving", ![i].summary = r,
                                        ![i].row = Len(summaries) + 1]
                /\ UNCHANGED <<sLoading, sError>>
    /\ UNCHANGED <<messages, captionsArg, allContent, aggPhase, synthVars,
                   page, hookVars, readerVars>>

Generate == \E i \in 1..Len(runs) : \E outcome \in ApiOutcomes : GenerateOf(i, outcome)

\* the insert ends: stored, an error result (logged), or an exception
SaveDoneOf(i, out) ==
    /\ runs[i].st = "saving"
    /\ summaries' = [summaries EXCEPT ![runs[i].row].status =
                                          IF out = "ok" THEN "stored" ELSE "failed"]
    /\ IF out = "throw"
       THEN /\ runs' = [runs EXCEPT ![i].st = "done", ![i].save = out,
                                    ![i].returned = Null]
            /\ sError' = "save-failed"
       ELSE /\ runs' = [runs EXCEPT ![i].st = "done", ![i].save = out,
                                    ![i].returned = runs[i].summary]
            /\ sError' = sError
    /\ sLoading' = FALSE
    /\ UNCHANGED <<messages, captionsArg, allContent, aggPhase, synthVars,
                   page, hookVars, readerVars>>

SaveDone == \E i \in 1..Len(runs) : \E out \in InsertOutcomes : SaveDoneOf(i, out)

\* ---------------------------------------------------------- the summary page
\* SummaryPage: newSummary holds the content of the page's last successful
\* invocation, existingSummary the record of its last successful query.  The
\* records' generated_at is the time of their insert, their position in
\* summaries.  The Generate button is disabled while the hook is loading, so
\* the page awaits one invocation at a time, the last of runs.
\*
\* the stored records of kind final, by position
StoredFinals ==
    {k \in 1..Len(summaries) :
        summaries[k].status = "stored" /\ summaries[k].summary_type = "final"}

\* order('generated_at', { ascending: false }).limit(1)
Latest == CHOOSE k \in StoredFinals : \A j \in StoredFinals : j <= k

\* fetchExistingSummary: the most recent record; no row is an error of
\* .single(), which leaves the state as it is
FetchExisting(now) == IF StoredFinals = {} THEN now ELSE summaries[Latest]

\* const summaryContent = newSummary || existingSummary?.content
SummaryContent ==
    IF page.newSummary # NoContent THEN page.newSummary
    ELSE IF page.existingSummary # NoContent THEN page.existingSummary.content
    ELSE NoContent

\* a record stored before the page is opened
EarlierRecord ==
    [SummaryRecord(0, [kind |-> "remote", text |-> "earlier"],
                   messages, captionsArg, NoVotes)
     EXCEPT !.status = "stored"]

\* the mount effect: fetchExistingSummary, then setLoading(false)
PageMount ==
    /\ page.step = "mounting"
    /\ page' = [page EXCEPT !.step = "ready",
                            !.existingSummary = FetchExisting(@)]
    /\ UNCHANGED <<messages, captionsArg, allContent, aggPhase, synthVars,
                   runs, summaries, sLoading, sError, hookVars, readerVars>>

\* the Generate button: handleGenerateSummary calls generateSummary
PageClick ==
    /\ page.step = "ready"
    /\ ~sLoading
    /\ InvokeBody
    /\ page' = [page EXCEPT !.step = "generating"]

\* generateSummary has resolved: if (result) setNewSummary(result)
PageResult ==
    /\ page.step = "generating"
    /\ runs[Len(runs)].st = "done"
    /\ page' = IF IsContent(runs[Len(runs)].returned)
               THEN [page EXCEPT !.step = "refreshing",
                                 !.newSummary = runs[Len(runs)].returned]
               ELSE [page EXCEPT !.step = "ready"]
    /\ UNCHANGED <<messages, captionsArg, allContent, aggPhase, synthVars,
                   runs, summaries, sLoading, sError, hookVars, readerVars>>

\* await fetchExistingSummary() after a successful invocation
PageRefresh ==
    /\ page.step = "refreshing"
    /\ page' = [page EXCEPT !.step = "ready",
                            !.existingSummary = FetchExisting(@)]
    /\ UNCHANGED <<messages, captionsArg, allContent, aggPhase, synthVars,
                   runs, summaries, sLoading, sError, hookVars, readerVars>>

\* ------------------------------------------------------------ specifications
\* The session controller: every operation but the result handler, which reads
\* only its instance's closure and writes only transcript, finalTranscriptRef
\* and requests, which no other handler reads.
Next ==
    \/ Render
    \/ PropChange
    \/ Unmount
    \/ StartListening
    \/ StopListening
    \/ OnStart
    \/ OnError
    \/ OnEnd
    \/ FireRestart
    \/ FireAutoStart

Spec == Init /\ [][Next]_vars

\* The caption path: the operations that bring a session to the point where
\* it reports results, and the result handler.
InitCaptions ==
    /\ AnyProps
    /\ Mounting([results |-> MaxResults, calls |-> MaxCalls,
                 props |-> MaxPropChanges, old |-> MaxOld, fails |-> 0])
    /\ ReaderIdle
    /\ AggIdle

NextCaptions ==
    \/ Render
    \/ PropChange
    \/ StartListening
    \/ FireAutoStart
    \/ OnStart
    \/ OnResult

SpecCaptions == InitCaptions /\ [][NextCaptions]_vars

\* The caption path of an anchor with a resolved side whose inserts may fail.
InitWrites ==
    /\ supported = TRUE
    /\ participantSide \in Sides
    /\ isAnchor = TRUE
    /\ Mounting([results |-> MaxResults, calls |-> 0, props |-> 0, old |-> 0,
                 fails |-> MaxFails])
    /\ ReaderIdle
    /\ AggIdle

NextWrites ==
    \/ Render
    \/ FireAutoStart
    \/ OnStart
    \/ OnResult

SpecWrites == InitWrites /\ [][NextWrites]_vars

\* The runs that exhaust the restart cap: an anchor with a resolved side on a
\* host with a recognizer, started again and again while earlier sessions,
\* stopped by the cleanup before the host signalled their start, still owe
\* their end event.
InitCap ==
    /\ supported = TRUE
    /\ participantSide = "side_a"
    /\ isAnchor = TRUE
    /\ Mounting([results |-> 0, calls |-> MaxCallsCap, props |-> MaxPropChanges,
                 old |-> MaxOldCap, fails |-> 0])
    /\ ReaderIdle
    /\ AggIdle

NextCap ==
    \/ Render
    \/ PropChange
    \/ FireAutoStart
    \/ StartListening
    \/ OnEnd

SpecCap == InitCap /\ [][NextCap]_vars

\* The recognition hook before its first effect, on a host with no recognizer.
HookIdle ==
    /\ supported = FALSE
    /\ participantSide = SideNone
    /\ isAnchor = FALSE
    /\ Mounting([results |-> 0, calls |-> 0, props |-> 0, old |-> 0, fails |-> 0])

\* The caption reader, the table it reads and the clients that insert rows.
InitReader ==
    /\ roomId \in Rooms \cup {RoomNone}
    /\ readerPhase = "init"
    /\ captions = <<>>
    /\ loading = TRUE
    /\ subs = <<>>
    /\ fetches = EmptyBag
    /\ table = <<>>
    /\ inbox = <<>>
    /\ readerLog = NoReaderLog
    /\ HookIdle
    /\ AggIdle

NextReader ==
    \/ ReaderMount
    \/ RoomChange
    \/ ReaderUnmount
    \/ InsertRow
    \/ Notify
    \/ FetchQuery
    \/ FetchReply

SpecReader == InitReader /\ [][NextReader]_vars

\* The content aggregator, applied to every pair of bounded inputs.
InitMerge ==
    /\ messages \in MessageInputs(MaxMessages)
    /\ captionsArg \in CaptionInputs(MaxCaptions)
    /\ votes = NoVotes
    /\ apiKey = TRUE
    /\ aggPhase = "called"
    /\ SynthIdle
    /\ SummaryIdle
    /\ HookIdle
    /\ ReaderIdle

NextMerge == Merge

SpecMerge == InitMerge /\ [][NextMerge]_vars

\* The partition of the merge, on entries of both sides and of no side.
InitPartition ==
    /\ messages \in SidedMessageInputs(MaxMessages)
    /\ captionsArg \in SidedCaptionInputs(MaxCaptions)
    /\ votes = NoVotes
    /\ apiKey = TRUE
    /\ aggPhase = "called"
    /\ SynthIdle
    /\ SummaryIdle
    /\ HookIdle
    /\ ReaderIdle

NextPartition == Merge \/ Prepare

SpecPartition == InitPartition /\ [][NextPartition]_vars

\* The percentages and the fallback, on every tally of votes, for an empty
\* debate and for the scenario's.
InitVotes ==
    /\ \/ messages = <<>> /\ captionsArg = <<>>
       \/ messages = ScenarioMessages /\ captionsArg = ScenarioCaptions
    /\ votes \in VoteInputs(MaxVotes)
    /\ apiKey \in BOOLEAN
    /\ aggPhase = "called"
    /\ SynthIdle
    /\ SummaryIdle
    /\ HookIdle
    /\ ReaderIdle

NextVotes == Merge \/ Prepare \/ Respond

SpecVotes == InitVotes /\ [][NextVotes]_vars

\* The prompt's lines, on captions of every kind of confidence.
InitFormat ==
    /\ messages \in MessageInputs(MaxMessages)
    /\ captionsArg \in ConfidenceCaptionInputs(MaxCaptions)
    /\ votes = NoVotes
    /\ apiKey = TRUE
    /\ aggPhase = "called"
    /\ SynthIdle
    /\ SummaryIdle
    /\ HookIdle
    /\ ReaderIdle

NextFormat == Merge \/ Prepare

SpecFormat == InitFormat /\ [][NextFormat]_vars

\* The invocations of generateSummary on the stored rows of one room.
InitSummary ==
    /\ messages \in StoredMessages(MaxMessages)
    /\ captionsArg \in StoredCaptions(MaxCaptions)
    /\ votes = ScenarioVotes
    /\ apiKey \in BOOLEAN
    /\ aggPhase = "idle"
    /\ SynthIdle
    /\ SummaryIdle
    /\ HookIdle
    /\ ReaderIdle

NextSummary == Invoke \/ FetchData \/ Generate \/ SaveDone

SpecSummary == InitSummary /\ [][NextSummary]_vars

\* The summary page of a room with or without an earlier record.
InitPage ==
    /\ messages \in StoredMessages(MaxMessages)
    /\ captionsArg \in StoredCaptions(MaxCaptions)
    /\ votes = ScenarioVotes
    /\ apiKey \in BOOLEAN
    /\ aggPhase = "idle"
    /\ SynthIdle
    /\ runs = <<>>
    /\ summaries \in {<<>>, <<EarlierRecord>>}
    /\ sLoading = FALSE
    /\ sError = ""
    /\ page = [PageIdle EXCEPT !.step = "mounting"]
    /\ HookIdle
    /\ ReaderIdle

NextPage ==
    PageMount \/ PageClick \/ FetchData \/ Generate \/ SaveDone \/ PageResult
        \/ PageRefresh

SpecPage == InitPage /\ [][NextPage]_vars

\* ------------------------------------------------------------------ the view
\* SpeechRecognitionControls, for an anchor: the error banner and the status line
ErrorBanner == error # ""

StatusLine ==
    IF isListening THEN "capturing" ELSE "paused (will restart automatically)"

\* ------------------------------------------------------------------- claims
Chars(s) == {s[i] : i \in 1..Len(s)}

\* the pending restart timers: the 1000 ms + 500 ms * n ones and the 5 s retries
RestartTimersPending ==
    (IF Pending(tref) THEN 1 ELSE 0)
    + BagCardinality([t \in {x \in BagToSet(loose) : x.kind # "autostart"}
                         |-> loose[t]])

\* the started recognizer instances
StartedInstances ==
    (IF Started(cur) THEN 1 ELSE 0)
    + BagCardinality([r \in {x \in BagToSet(old) : Started(x)} |-> old[r]])

\* C1: every caption insert request has is_final = true and a content that
\* holds no character of an interim result (the recognizer's interim results
\* are the only source of the character "i"); nor does the buffered final text.
C1_InterimNeverPersisted ==
    /\ \A k \in 1..Len(requests) :
          requests[k].is_final = TRUE /\ "i" \notin Chars(requests[k].content)
    /\ "i" \notin Chars(finalTranscriptRef)

\* C1 witness: an event mixing final and interim segments was handled: a
\* request was issued while the interim text is in the transcript preview.
C1_Witness == Len(requests) >= 1 /\ "i" \in Chars(transcript)

C3_DeniedEndArmsNoTimer ==
    [][\A p \in Instances :
          (p[2].err = "not-allowed" /\ OnEndOf(p))
              => (tref' = tref /\ loose' = loose)]_vars

\* C4: the end event of a session stopped by stopListening arms no timer.
C4_StopEndArmsNoTimer ==
    [][\A p \in Instances :
          (p[2].halt = "stop" /\ OnEndOf(p))
              => (tref' = tref /\ loose' = loose)]_vars

\* C5: at most one restart timer is pending.
C5_OneRestartTimer == RestartTimersPending <= 1

C7_RestartSurvivesRender ==
    [][(Render /\ tref.kind = "restart") => tref' = tref]_vars

\* C8: the start event of an automatically restarted session leaves the
\* attempt count alone.
C8_AutoRestartKeepsCount ==
    [][\A p \in Instances :
          (p[2].how = "auto" /\ OnStartOf(p))
              => autoRestartCount' = autoRestartCount]_vars

\* C9: once the attempt count is at the cap, an end event arms no timer.
C9_NoTimerAtCap ==
    [][\A p \in Instances :
          (autoRestartCount >= MaxRestarts /\ OnEndOf(p))
              => (tref' = tref /\ loose' = loose)]_vars

\* C10: with the cap exhausted and the session over, the hook exposes an error
\* and the status line no longer announces an automatic restart.
C10_CapSurfaced ==
    (/\ phase = "mounted" /\ ~Dirty
     /\ isAnchor /\ isSupported
     /\ autoRestartCount >= MaxRestarts
     /\ ~isListening /\ ~Live(cur))
        => (ErrorBanner /\ StatusLine # "paused (will restart automatically)")

\* C11: when a session that an automatic restart started reports no-speech and
\* ends while the hook is mounted and its handlers have restart enabled, its
\* end event arms a restart timer whose delay is greater than the
\* delay of the restart that started the session.
C11_DelaysIncrease ==
    [][\A p \in Instances :
          (/\ phase = "mounted"
           /\ p[2].how = "auto" /\ p[2].via > 0 /\ p[2].err = "no-speech"
           /\ ShouldRestart(p[2])
           /\ OnEndOf(p))
              => (tref'.kind = "restart" /\ tref'.delay > p[2].via)]_vars

\* C12: a session started by the automatic start on mount belongs to a
\* participant who is an anchor with a resolved side.
C12_AutoStartOnlyForSpeaker ==
    (Started(cur) /\ cur.how = "mount") => (isAnchor /\ participantSide # SideNone)

\* C13: every request carries a resolved side and a content that is non-empty
\* and has no white space at either end, and there are no more requests than
\* events with final text handled by the handler of an anchor with a side.
C13_RequestsWellFormed ==
    /\ Len(requests) <= Len(log.saves)
    /\ \A k \in 1..Len(requests) :
          /\ requests[k].participant_side \in Sides
          /\ requests[k].content # <<>>
          /\ Head(requests[k].content) # "_"
          /\ requests[k].content[Len(requests[k].content)] # "_"

\* C13 witness: after a request, an event whose final text is white space only
\* was handled: the preview holds more final text than was saved.
C13_Witness ==
    /\ Len(requests) = 1
    /\ "i" \notin Chars(transcript)
    /\ Len(transcript) > Len(finalTranscriptRef)

\* C14: a started session runs with the handlers of the side the participant
\* had when it started, and the k-th request carries the side of the handlers
\* of the session that issued it, whatever the participant's side is by then.
C14_SideFixedPerSession ==
    /\ Started(cur) => cur.cSide = participantSide
    /\ \A k \in 1..Len(requests) :
          k <= Len(log.saves) => requests[k].participant_side = log.saves[k]

\* C14 witness: the participant's side changed while a session ran, and the
\* session's next caption carries the side the session started with.
C14_Witness ==
    /\ Len(requests) >= 1
    /\ participantSide \in Sides
    /\ requests[Len(requests)].participant_side \in Sides \ {participantSide}

\* the confidences of the final segments of an event, as they should be stored
FinalConfidencesOf(ev) ==
    {IF ev[i].confidence = NoConf THEN DefaultConfidence ELSE ev[i].confidence :
        i \in {k \in 1..Len(ev) : ev[k].isFinal}}

\* C15: the confidence of a request is the confidence the recognizer reported
\* for a final segment of the event being saved, the default standing in only
\* for an omitted confidence.
C15_ConfidenceOfFinalSegment ==
    [][requests' # requests =>
       \A p \in Instances, ev \in ResultEvents(budget.results), out \in InsertOutcomes :
          (OnResultOf(p, ev, out) /\ requests' # requests)
              => requests'[Len(requests')].confidence \in FinalConfidencesOf(ev)]_vars

IsPrefix(q, r) == Len(q) <= Len(r) /\ SubSeq(r, 1, Len(q)) = q

\* C17: once the fetch of the current subscription has been answered, the
\* exposed list starts with the fetched captions and holds every caption the
\* subscription was notified of.
C17_FetchThenLive ==
    (readerPhase = "mounted" /\ readerLog.replied)
        => /\ IsPrefix(readerLog.got, captions)
           /\ Range(readerLog.seen) \subseteq Range(captions)

\* the subscriptions, as the reader must hold them
SubscriptionsScoped ==
    /\ Cardinality({i \in 1..Len(subs) : subs[i].st = "joined"}) <= 1
    /\ \A i \in 1..Len(subs) :
          /\ subs[i].st = "closed" <=> subs[i].released = 1
          /\ subs[i].st = "joined" <=> subs[i].released = 0
          /\ subs[i].st = "joined"
                => (i = Len(subs) /\ readerPhase = "mounted" /\ subs[i].room = roomId)

Times(q) == {GetTime(q[i].timestamp) : i \in 1..Len(q)}

\* the entries of q of one type and one time, in the order of q
Of(q, type, t) ==
    SelectSeq(q, LAMBDA e : e.type = type /\ GetTime(e.timestamp) = t)

\* C19: the merged sequence holds the mapped inputs, in ascending time; in
\* strictly ascending time if no two inputs share a time; among the entries
\* of one time no caption precedes a message, and the messages (the captions)
\* of one time keep the order of the argument.
C19_StableMerge ==
    aggPhase = "merged" =>
        LET all == MapMessages(messages) \o MapCaptions(captionsArg)
        IN  /\ Len(allContent) = Len(all)
            /\ \A i, j \in 1..Len(allContent) :
                  i < j => GetTime(allContent[i].timestamp)
                               <= GetTime(allContent[j].timestamp)
            /\ Cardinality(Times(all)) = Len(all)
                  => \A i, j \in 1..Len(allContent) :
                        i < j => GetTime(allContent[i].timestamp)
                                     < GetTime(allContent[j].timestamp)
            /\ \A i, j \in 1..Len(allContent) :
                  (/\ i < j
                   /\ allContent[i].timestamp = allContent[j].timestamp)
                      => ~(allContent[i].type = "caption"
                           /\ allContent[j].type = "message")
            /\ \A t \in Times(all), type \in {"message", "caption"} :
                  Of(allContent, type, t) = Of(all, type, t)

\* C19 witness: a merge of two messages and a caption, the caption sharing
\* its timestamp with the second message and preceding the first one in time.
C19_Witness ==
    /\ aggPhase = "merged"
    /\ Len(messages) = 2 /\ Len(captionsArg) >= 1
    /\ messages[2].timestamp = captionsArg[1].timestamp
    /\ GetTime(captionsArg[1].timestamp) < GetTime(messages[1].timestamp)

\* C20 as stated: the merged sequence is in strictly ascending time.
C20_StrictlyAscending ==
    aggPhase = "merged" =>
        \A i \in 1..(Len(allContent) - 1) :
            GetTime(allContent[i].timestamp) < GetTime(allContent[i + 1].timestamp)

\* C20 as amended: the merged sequence is in ascending time, entries of one
\* time next to each other.
C20_Ascending ==
    aggPhase = "merged" =>
        \A i \in 1..(Len(allContent) - 1) :
            GetTime(allContent[i].timestamp) <= GetTime(allContent[i + 1].timestamp)

\* C20 witness: a merge of a message and a caption of one timestamp.
C20_Witness ==
    /\ aggPhase = "merged"
    /\ \E i \in 1..Len(messages), j \in 1..Len(captionsArg) :
          messages[i].timestamp = captionsArg[j].timestamp


RECURSIVE IsSubseq(_, _)
\* s is obtained from t by deleting elements
IsSubseq(s, t) ==
    IF s = <<>> THEN TRUE
    ELSE IF t = <<>> THEN FALSE
    ELSE IF Head(s) = Head(t) THEN IsSubseq(Tail(s), Tail(t))
    ELSE IsSubseq(s, Tail(t))

\* the number of entries of q of the given side
CountOf(q, side) == Cardinality({i \in 1..Len(q) : q[i].side = side})

\* C21: each partition is a subsequence of the merge in the merge's order,
\* holds entries of its side only and all of them; an entry of no side is in
\* neither partition, and the merge keeps every entry of both arguments.
C21_PartitionsPreserveOrder ==
    aggPhase = "prepared" =>
        /\ IsSubseq(prepared.sideAContent, allContent)
        /\ IsSubseq(prepared.sideBContent, allContent)
        /\ \A i \in 1..Len(prepared.sideAContent) :
              prepared.sideAContent[i].side = "side_a"
        /\ \A i \in 1..Len(prepared.sideBContent) :
              prepared.sideBContent[i].side = "side_b"
        /\ Len(prepared.sideAContent) = CountOf(allContent, "side_a")
        /\ Len(prepared.sideBContent) = CountOf(allContent, "side_b")
        /\ Len(allContent) = Len(messages) + Len(captionsArg)
        /\ CountOf(allContent, SideNone)
              = CountOf(MapMessages(messages), SideNone)
                  + CountOf(MapCaptions(captionsArg), SideNone)

\* the merge holds entries of side A, of side B and of no side
C21_Witness ==
    /\ aggPhase = "prepared"
    /\ CountOf(allContent, SideNone) > 0
    /\ Len(prepared.sideAContent) > 0
    /\ Len(prepared.sideBContent) > 0

\* the text p is the number 100 * v / total at one decimal, to the nearest
NearestTenth(p, v, total) ==
    /\ Len(p) = 2
    /\ p[2] \in 0..9
    /\ 2 * total * (10 * p[1] + p[2]) - 2000 * v \in (0 - total)..total

\* C22: with no votes both percentages are the text 0; with votes each is
\* 100 * side / total rounded to one decimal.
C22_Percentages ==
    aggPhase \in {"prepared", "returned"} =>
        IF votes.side_a + votes.side_b = 0
        THEN /\ prepared.sideAPercentage = <<0>>
             /\ prepared.sideBPercentage = <<0>>
        ELSE /\ NearestTenth(prepared.sideAPercentage, votes.side_a,
                             votes.side_a + votes.side_b)
             /\ NearestTenth(prepared.sideBPercentage, votes.side_b,
                             votes.side_a + votes.side_b)

\* the percentages of a debate without votes have been computed
C22_Witness ==
    /\ aggPhase = "prepared"
    /\ votes.side_a + votes.side_b = 0
    /\ prepared.sideAPercentage = <<0>>

\* C23: an invocation whose data was fetched and whose save did not throw
\* returns the remote text or the fallback, never null.
C23_NeverNull ==
    \A i \in 1..Len(runs) :
        (runs[i].st = "done" /\ runs[i].fetched /\ runs[i].save # "throw")
            => IsContent(runs[i].returned)

\* C24: two invocations on the same rows whose generative calls both fail
\* produce the same fallback content.
C24_FallbackDeterministic ==
    \A i, j \in 1..Len(runs) :
        (runs[i].summary.kind = "fallback" /\ runs[j].summary.kind = "fallback")
            => runs[i].summary = runs[j].summary

\* the inserts issued by invocation i
RowsOf(i) == {k \in 1..Len(summaries) : summaries[k].run = i}

\* C25 as stated: every finished invocation has created exactly one record,
\* of kind final, with the returned content and the fetched counts.
C25_OneRecordPerInvocation ==
    \A i \in 1..Len(runs) :
        runs[i].st = "done" =>
            /\ Cardinality(RowsOf(i)) = 1
            /\ \A k \in RowsOf(i) :
                  /\ summaries[k].status = "stored"
                  /\ summaries[k].summary_type = "final"
                  /\ summaries[k].content = runs[i].returned
                  /\ summaries[k].total_messages = Len(messages)
                  /\ summaries[k].total_captions = Len(captionsArg)

\* C25, amended: an invocation issues no insert before the synthesizer has
\* returned content, and exactly one after, of kind final, with that content
\* and the fetched counts; the record exists once that insert has succeeded,
\* and what the invocation returns, unless null, is the record's content.
C25_OneInsertPerSynthesis ==
    \A i \in 1..Len(runs) :
        IF runs[i].summary = NoContent
        THEN RowsOf(i) = {}
        ELSE /\ RowsOf(i) = {runs[i].row}
             /\ summaries[runs[i].row].summary_type = "final"
             /\ summaries[runs[i].row].content = runs[i].summary
             /\ summaries[runs[i].row].total_messages = Len(messages)
             /\ summaries[runs[i].row].total_captions = Len(captionsArg)
             /\ summaries[runs[i].row].status = "stored" <=> runs[i].save = "ok"
             /\ IsContent(runs[i].returned)
                   => runs[i].returned = summaries[runs[i].row].content

\* the second invocation has stored its record while the first one, called
\* before it, is still saving its own
C25_Witness ==
    /\ Len(runs) = 2
    /\ runs[1].st = "saving"
    /\ runs[2].st = "done" /\ runs[2].save = "ok"
    /\ Len(messages) # Len(captionsArg)

\* C26: an invocation whose save failed, by an error result or by an
\* exception, returns the content it generated and sets no error.
C26_SaveFailureKeepsContent ==
    \A i \in 1..Len(runs) :
        (runs[i].st = "done" /\ runs[i].save \in {"error", "throw"})
            => /\ runs[i].returned = runs[i].summary
               /\ sError # "save-failed"

\* C27: the arguments persisted for a side are the side's first entries in
\* chronological order across messages and captions.
C27_ArgumentsChronological ==
    \A k \in 1..Len(summaries) :
        /\ summaries[k].side_a_arguments
              = ExtractSideArgumentsChronological(messages, captionsArg, "side_a")
        /\ summaries[k].side_b_arguments
              = ExtractSideArgumentsChronological(messages, captionsArg, "side_b")

\* the line of the prompt is tagged by the entry's source and annotated
\* exactly when the entry is a caption of a confidence below the threshold
LineMatches(line, item) ==
    /\ line.typeIndicator = IF item.type = "caption" THEN "[SPEECH]" ELSE "[CHAT]"
    /\ line.confidenceNote # ""
          <=> /\ item.type = "caption"
              /\ item.confidence # NoConf
              /\ item.confidence < LowConfidence

\* C28: every line of the prompt carries the tag of its source, and the
\* low-confidence note exactly when it is a caption whose confidence is below
\* the threshold, a confidence of 0 included.
C28_LowConfidenceAnnotated ==
    aggPhase = "prepared" =>
        /\ Len(prepared.promptA) = Len(prepared.sideAContent)
        /\ Len(prepared.promptB) = Len(prepared.sideBContent)
        /\ \A i \in 1..Len(prepared.promptA) :
              LineMatches(prepared.promptA[i], prepared.sideAContent[i])
        /\ \A i \in 1..Len(prepared.promptB) :
              LineMatches(prepared.promptB[i], prepared.sideBContent[i])

IsScenario ==
    /\ messages = ScenarioMessages
    /\ captionsArg = ScenarioCaptions
    /\ votes = ScenarioVotes

\* C29: the fallback reports the lengths of the two arguments and the two
\* computed percentages; for the scenario the merge is in the order t1..t5,
\* side A has 3 entries and side B 2, the percentages are 75.0 and 25.0, and
\* the fallback holds 3, 2 and both percentages.
C29_ScenarioAndFallback ==
    /\ (aggPhase = "returned" /\ result.kind = "fallback") =>
          /\ result.messages = Len(messages)
          /\ result.captions = Len(captionsArg)
          /\ result.sideAPercentage = prepared.sideAPercentage
          /\ result.sideBPercentage = prepared.sideBPercentage
    /\ (IsScenario /\ aggPhase \in {"merged", "prepared", "returned"}) =>
          [i \in 1..Len(allContent) |-> allContent[i].timestamp]
              = <<"t1", "t2", "t3", "t4", "t5">>
    /\ (IsScenario /\ aggPhase \in {"prepared", "returned"}) =>
          /\ Len(prepared.sideAContent) = 3
          /\ Len(prepared.sideBContent) = 2
          /\ prepared.sideAPercentage = <<75, 0>>
          /\ prepared.sideBPercentage = <<25, 0>>
    /\ (IsScenario /\ aggPhase = "returned" /\ result.kind = "fallback") =>
          /\ result.messages = 3
          /\ result.captions = 2
          /\ result.sideAPercentage = <<75, 0>>
          /\ result.sideBPercentage = <<25, 0>>

\* the scenario's generative call has failed and the fallback was returned
C29_Witness ==
    /\ IsScenario
    /\ aggPhase = "returned"
    /\ result.kind = "fallback"

\* C30: on a host without a recognizer the error is reported after the first
\* render and stays reported; no recognizer exists, so none is started by the
\* auto-start or by an explicit start, and no auto-start, restart or retry
\* timer is ever pending.
C30_UnsupportedIsFatal ==
    (~supported /\ phase # "init") =>
        /\ error # ""
        /\ cur.st = "null"
        /\ old = EmptyBag
        /\ loose = EmptyBag
        /\ tref = NoTimer
        /\ ~isListening
        /\ ~isSupported
        /\ ~isAutoStartedRef

\* an anchor with a side on a host without a recognizer has called startListening
C30_Witness ==
    /\ ~supported /\ phase = "mounted"
    /\ isAnchor /\ participantSide \in Sides
    /\ budget.calls = 0
    /\ error = "unsupported"


C32_CounterChangeKeepsSession ==
    (phase = "mounted" /\ budget.props = MaxPropChanges) =>
        \A p \in Instances : p[2].halt # "cleanup"

\* C33: the attempt counter never exceeds the cap.
C33_CountWithinCap == autoRestartCount <= MaxRestarts

\* C34: after the unmount no step starts the recognizer.
C34_NoStartAfterUnmount ==
    [][phase = "unmounted" => ~(cur'.st = "starting" /\ cur.st # "starting")]_vars


\* nothing of the reader is in flight: no fetch and no notification
ReaderQuiet == fetches = EmptyBag /\ inbox = <<>>

\* C35: once the fetch of the current subscription has been answered and
\* nothing is in flight, every final caption of the room that is in the table
\* is in the exposed list.
C35_NoCaptionLost ==
    (readerPhase = "mounted" /\ roomId # RoomNone /\ readerLog.replied
        /\ ReaderQuiet)
        => \A r \in Range(table) :
              (r.room = roomId /\ r.is_final) => r \in Range(captions)

\* C36: the exposed list holds no caption id twice.
C36_NoDuplicateIds ==
    \A i, j \in 1..Len(captions) : captions[i].id = captions[j].id => i = j

\* C37: once the fetch of the current room has been answered, the exposed
\* list holds captions of the current room only.
C37_OnlyCurrentRoom ==
    (readerPhase = "mounted" /\ roomId # RoomNone /\ readerLog.replied)
        => \A i \in 1..Len(captions) : captions[i].room = roomId


\* an invocation whose queries failed returned null, obtained no content and
\* issued no insert
FailedFetchIsClean(i) ==
    (runs[i].st = "done" /\ ~runs[i].fetched) =>
        /\ runs[i].returned = Null
        /\ runs[i].summary = NoContent
        /\ RowsOf(i) = {}

\* C38: when every invocation has finished loading is false; an invocation
\* whose queries failed returned null without content and without a record;
\* and loading is true as long as some invocation has not finished.
C38_LoadingUntilLast ==
    /\ (runs # <<>> /\ \A i \in 1..Len(runs) : runs[i].st = "done") => ~sLoading
    /\ \A i \in 1..Len(runs) : FailedFetchIsClean(i)
    /\ (\E i \in 1..Len(runs) : runs[i].st # "done") => sLoading


\* the one-decimal text p as a number of tenths
Tenths(p) == 10 * p[1] + p[2]

\* C39: with at least one vote the two percentages add up to 100.0.
C39_PercentagesSumTo100 ==
    (aggPhase \in {"prepared", "returned"} /\ votes.side_a + votes.side_b > 0)
        => Tenths(prepared.sideAPercentage) + Tenths(prepared.sideBPercentage)
              = 1000

====
